---- MODULE Spec2Model ----
(***************************************************************************)
(* A model of src/expense_manager.py: class ExpenseManager, which reads a  *)
(* ';'-delimited csv of expenses into a pandas data frame (df_exp),        *)
(* converts its columns (convert_all_cols / convert_col), filters and sums *)
(* it (get_filtered_df, get_sum, get_sum_by_date) and prints a summary.    *)
(*                                                                         *)
(* Texts are sequences of one-character strings, so that str.replace,     *)
(* pd.to_numeric and pd.to_datetime are computed character by character.   *)
(* Numbers are exact decimals (digits n, e of them after the point): the   *)
(* binary rounding error of float64 is not modelled.                       *)
(***************************************************************************)
EXTENDS Integers, Sequences, FiniteSets

VARIABLES csv, obj, df_exp, view, total, out, exc, op

vars == <<csv, obj, df_exp, view, total, out, exc, op>>

(***************************************************************************)
(* Class constants, src/expense_manager.py lines 13-33.                    *)
(***************************************************************************)
NUM_FORMAT == "numeric"
DATE_FORMAT == "date"
STR_FORMAT == "string"
BOOL_FORMAT == "bool"

DT_COL == "date"
PROD_COL == "product"
VAL_COL == "value"
CATEG_COL == "category"
PAY_COL == "payment_method"
PRIOR_COL == "priority"
MY_EXP_COL == "my_expense"
FIX_EXP_COL == "fixed_expense"
DETAILS_COL == "details"

\* The dictionary of convert_all_cols, in its insertion order.
col_dict ==
  << <<DT_COL, DATE_FORMAT>>, <<PROD_COL, STR_FORMAT>>, <<VAL_COL, NUM_FORMAT>>,
     <<CATEG_COL, STR_FORMAT>>, <<PAY_COL, STR_FORMAT>>, <<PRIOR_COL, BOOL_FORMAT>>,
     <<MY_EXP_COL, BOOL_FORMAT>>, <<FIX_EXP_COL, BOOL_FORMAT>>,
     <<DETAILS_COL, STR_FORMAT>> >>

Columns == {col_dict[i][1] : i \in 1..Len(col_dict)}

(***************************************************************************)
(* Texts.                                                                  *)
(***************************************************************************)
Digits == <<"0", "1", "2", "3", "4", "5", "6", "7", "8", "9">>

IsDigit(c) == \E i \in 1..10 : Digits[i] = c

DigitVal(c) == (CHOOSE i \in 1..10 : Digits[i] = c) - 1

\* The characters of the modelled texts in code-point order (Python compares
\* str values by code point).
CodePoints ==
  <<",", "-", ".", "/", "0", "1", "2", "3", "4", "5", "6", "7", "8", "9",
    "A", "B", "F", "N", "T", "a", "b", "c", "d", "e", "i", "l", "n", "o", "p",
    "r", "s", "t", "u", "x", "y">>

Ord(c) == CHOOSE i \in 1..Len(CodePoints) : CodePoints[i] = c

RECURSIVE StrLess(_, _)
StrLess(s, t) ==
  IF t = <<>> THEN FALSE
  ELSE IF s = <<>> THEN TRUE
  ELSE IF Head(s) = Head(t) THEN StrLess(Tail(s), Tail(t))
  ELSE Ord(Head(s)) < Ord(Head(t))

IsPrefix(p, s) == Len(p) <= Len(s) /\ SubSeq(s, 1, Len(p)) = p

\* Python's str.replace(old, new) for a non-empty old: one pass from the left
\* over non-overlapping occurrences.
RECURSIVE str_replace(_, _, _)
str_replace(s, old, new) ==
  IF s = <<>> THEN <<>>
  ELSE IF IsPrefix(old, s)
       THEN new \o str_replace(SubSeq(s, Len(old) + 1, Len(s)), old, new)
       ELSE <<Head(s)>> \o str_replace(Tail(s), old, new)

RECURSIVE DigitsVal(_)
DigitsVal(s) ==
  IF s = <<>> THEN 0
  ELSE 10 * DigitsVal(SubSeq(s, 1, Len(s) - 1)) + DigitVal(s[Len(s)])

AllDigits(s) == \A i \in 1..Len(s) : IsDigit(s[i])

RECURSIVE NatToStr(_)
NatToStr(n) ==
  IF n < 10 THEN <<Digits[n + 1]>>
  ELSE NatToStr(n \div 10) \o <<Digits[(n % 10) + 1]>>

\* The parts of s between the occurrences of the character sep.
RECURSIVE Split(_, _)
Split(s, sep) ==
  IF \A i \in 1..Len(s) : s[i] # sep THEN <<s>>
  ELSE LET k == CHOOSE i \in 1..Len(s) :
                  s[i] = sep /\ \A j \in 1..(i - 1) : s[j] # sep
       IN <<SubSeq(s, 1, k - 1)>> \o Split(SubSeq(s, k + 1, Len(s)), sep)

(***************************************************************************)
(* Cells of a data frame.  k is the kind of the value: "str" (s), "num"    *)
(* (the decimal n / 10^e, without trailing zeros), "bool" (n is 1 or 0),   *)
(* "date" (n is year*10000 + month*100 + day), "nan" (NaN) and "nat" (NaT).*)
(***************************************************************************)
StrCell(s) == [k |-> "str", n |-> 0, e |-> 0, s |-> s]
NaN == [k |-> "nan", n |-> 0, e |-> 0, s |-> <<>>]
NaT == [k |-> "nat", n |-> 0, e |-> 0, s |-> <<>>]
BoolCell(b) == [k |-> "bool", n |-> IF b THEN 1 ELSE 0, e |-> 0, s |-> <<>>]
DateCell(y, m, d) == [k |-> "date", n |-> y * 10000 + m * 100 + d, e |-> 0, s |-> <<>>]

RECURSIVE Normal(_, _)
Normal(n, e) ==
  IF e > 0 /\ n % 10 = 0 THEN Normal(n \div 10, e - 1)
  ELSE [k |-> "num", n |-> n, e |-> e, s |-> <<>>]

NumCell(n, e) == Normal(n, e)

RECURSIVE Pow10(_)
Pow10(e) == IF e = 0 THEN 1 ELSE 10 * Pow10(e - 1)

\* a < b, a = b for two numbers.
NumLess(a, b) == a.n * Pow10(b.e) < b.n * Pow10(a.e)
NumAdd(a, b) ==
  LET e == IF a.e > b.e THEN a.e ELSE b.e
  IN NumCell(a.n * Pow10(e - a.e) + b.n * Pow10(e - b.e), e)

\* Python's round(x, 2) of a non-negative number: half to even.
round2(a) ==
  IF a.e <= 2 THEN a
  ELSE LET p == Pow10(a.e - 2)
           q == a.n \div p
           r == a.n % p
       IN IF 2 * r > p \/ (2 * r = p /\ q % 2 = 1) THEN NumCell(q + 1, 2)
          ELSE NumCell(q, 2)

(***************************************************************************)
(* Parsing.                                                                *)
(***************************************************************************)
\* A decimal literal as float() and the csv parser read it: digits with at
\* most one '.', at least one digit.  (Signs, exponents and blanks are not in
\* the modelled texts.)
IsNumeric(s) ==
  LET parts == Split(s, ".")
  IN /\ Len(parts) <= 2
     /\ \A i \in 1..Len(parts) : AllDigits(parts[i])
     /\ \E i \in 1..Len(parts) : parts[i] # <<>>

IsIntLiteral(s) == s # <<>> /\ AllDigits(s)

ParseNum(s) ==
  LET parts == Split(s, ".")
      frac == IF Len(parts) = 2 THEN parts[2] ELSE <<>>
  IN NumCell(DigitsVal(parts[1] \o frac), Len(frac))

IsLeap(y) == (y % 4 = 0 /\ y % 100 # 0) \/ y % 400 = 0

DaysIn(y, m) ==
  IF m = 2 THEN (IF IsLeap(y) THEN 29 ELSE 28)
  ELSE IF m \in {4, 6, 9, 11} THEN 30 ELSE 31

\* strptime with DATE_STR_FMT = "%m/%d/%Y": one or two digits of month and of
\* day, four digits of year, a day the month has.
DATE_STR_FMT == <<"m", "d", "Y">>

IsDate(s) ==
  LET parts == Split(s, "/")
  IN /\ Len(parts) = Len(DATE_STR_FMT)
     /\ \A i \in 1..Len(parts) : AllDigits(parts[i])
     /\ Len(parts[1]) \in {1, 2} /\ Len(parts[2]) \in {1, 2} /\ Len(parts[3]) = 4
     /\ DigitsVal(parts[1]) \in 1..12
     /\ DigitsVal(parts[2]) \in 1..DaysIn(DigitsVal(parts[3]), DigitsVal(parts[1]))

ParseDate(s) ==
  LET parts == Split(s, "/")
  IN DateCell(DigitsVal(parts[3]), DigitsVal(parts[1]), DigitsVal(parts[2]))

\* pd.Timestamp of an ISO text "YYYY-MM-DD".
Timestamp(s) ==
  DateCell(DigitsVal(SubSeq(s, 1, 4)), DigitsVal(SubSeq(s, 6, 7)),
           DigitsVal(SubSeq(s, 9, 10)))

(***************************************************************************)
(* Data frames.  A frame has a set of columns, a dtype for each and rows;  *)
(* a row keeps its index label (idx, the line of the file it came from)    *)
(* through every selection.                                                *)
(***************************************************************************)
NoFrame == [cols |-> {}, dtype |-> [c \in {} |-> "object"], rows |-> <<>>]

ColCells(df, col) == [i \in 1..Len(df.rows) |-> df.rows[i].c[col]]

\* df[col] = cells, with the dtype given.
SetCol(df, col, dtype, cells) ==
  [df EXCEPT !.dtype = [@ EXCEPT ![col] = dtype],
             !.rows = [i \in 1..Len(df.rows) |->
                         [@[i] EXCEPT !.c = [@ EXCEPT ![col] = cells[i]]]]]

\* df[mask]: the rows whose mask is TRUE, in order.
RECURSIVE SelectSeq2(_, _)
SelectSeq2(rows, mask) ==
  IF rows = <<>> THEN <<>>
  ELSE (IF mask[1] THEN <<Head(rows)>> ELSE <<>>)
       \o SelectSeq2(Tail(rows), Tail(mask))

BoolIndex(df, mask) == [df EXCEPT !.rows = SelectSeq2(df.rows, mask)]

\* The texts pd.read_csv reads as a missing value (of its default na_values,
\* those the modelled texts can spell).
NA_VALUES ==
  { <<>>, <<"N", "A">>, <<"n", "a", "n">>, <<"N", "a", "N">>,
    <<"n", "u", "l", "l">>, <<"n", "/", "a">>, <<"N", "/", "A">> }

\* The dtype the csv parser infers for a column of texts.  (Boolean literals
\* such as "True" are not among the modelled texts.)
InferDtype(texts) ==
  LET present == {i \in 1..Len(texts) : texts[i] \notin NA_VALUES}
  IN IF Len(texts) = 0 THEN "object"
     ELSE IF \A i \in present : IsNumeric(texts[i])
          THEN (IF Cardinality(present) = Len(texts)
                   /\ \A i \in present : IsIntLiteral(texts[i])
                THEN "int64" ELSE "float64")
          ELSE "object"

ReadCell(text, dtype) ==
  IF text \in NA_VALUES THEN NaN
  ELSE IF dtype = "object" THEN StrCell(text) ELSE ParseNum(text)

\* pd.read_csv(csv_file, delimiter=DELIMITER) of a readable file.
read_csv(file) ==
  LET texts(col) == [i \in 1..Len(file.rows) |-> file.rows[i][col]]
      dt == [col \in file.header |-> InferDtype(texts(col))]
  IN [cols |-> file.header,
      dtype |-> dt,
      rows |-> [i \in 1..Len(file.rows) |->
                 [idx |-> i - 1,
                  c |-> [col \in file.header |-> ReadCell(file.rows[i][col], dt[col])]]]]

(***************************************************************************)
(* convert_col and convert_all_cols.  An operation that can raise returns  *)
(* a record with the frame it leaves in self.df_exp and the exception      *)
(* ("none" when it returns normally).                                      *)
(***************************************************************************)
Ok(df) == [df |-> df, exc |-> "none"]
Raise(df, e) == [df |-> df, exc |-> e]

\* The .str accessor exists for a column of object dtype only.
HasStrAccessor(df, col) == df.dtype[col] = "object"

\* Series.str.replace(old, new): missing values stay missing.
SeriesStrReplace(cells, old, new) ==
  [i \in DOMAIN cells |->
     IF cells[i].k = "str" THEN StrCell(str_replace(cells[i].s, old, new))
     ELSE cells[i]]

\* str(x) of a cell, as Series.astype(str) computes it.
NumToStr(cell, dtype) ==
  LET ip == cell.n \div Pow10(cell.e)
      fp == cell.n % Pow10(cell.e)
      fs == NatToStr(fp)
      pad == [i \in 1..(cell.e - Len(fs)) |-> "0"]
  IN IF dtype = "int64" THEN NatToStr(ip)
     ELSE IF cell.e = 0 THEN NatToStr(ip) \o <<".", "0">>
     ELSE NatToStr(ip) \o <<".">> \o pad \o fs

Pad2(n) == IF n < 10 THEN <<"0">> \o NatToStr(n) ELSE NatToStr(n)

AsStr(cell, dtype) ==
  CASE cell.k = "str" -> cell
    [] cell.k = "nan" -> StrCell(<<"n", "a", "n">>)
    [] cell.k = "nat" -> StrCell(<<"N", "a", "T">>)
    [] cell.k = "bool" -> StrCell(IF cell.n = 1 THEN <<"T", "r", "u", "e">>
                                  ELSE <<"F", "a", "l", "s", "e">>)
    [] cell.k = "date" -> StrCell(NatToStr(cell.n \div 10000) \o <<"-">>
                                  \o Pad2((cell.n \div 100) % 100) \o <<"-">>
                                  \o Pad2(cell.n % 100))
    [] cell.k = "num" -> StrCell(NumToStr(cell, dtype))

\* bool(x) of a cell, as Series.astype(bool) computes it: a text is true iff
\* it is not empty, and NaN (a float that is not 0.0) is true.
AsBool(cell) ==
  CASE cell.k = "str" -> BoolCell(cell.s # <<>>)
    [] cell.k \in {"nan", "nat", "date"} -> BoolCell(TRUE)
    [] cell.k \in {"num", "bool"} -> BoolCell(cell.n # 0)

\* pd.to_numeric of an object column: the dtype of the result.
NumericDtype(cells) ==
  IF \A i \in DOMAIN cells : cells[i].k = "str" /\ IsIntLiteral(cells[i].s)
  THEN "int64" ELSE "float64"

convert_col(df, col_name, data_type) ==
  IF data_type \notin {NUM_FORMAT, DATE_FORMAT, STR_FORMAT, BOOL_FORMAT}
  THEN Raise(df, "Exception")
  ELSE IF col_name \notin df.cols THEN Raise(df, "KeyError")
  ELSE LET cells == ColCells(df, col_name)
           dtype == df.dtype[col_name]
       IN CASE data_type = NUM_FORMAT ->
                 IF ~HasStrAccessor(df, col_name) THEN Raise(df, "AttributeError")
                 ELSE LET dotted == SeriesStrReplace(cells, <<",">>, <<".">>)
                          df1 == SetCol(df, col_name, "object", dotted)
                      IN IF \E i \in DOMAIN dotted :
                              dotted[i].k = "str" /\ ~IsNumeric(dotted[i].s)
                         THEN Raise(df1, "ValueError")
                         ELSE Ok(SetCol(df1, col_name, NumericDtype(dotted),
                                        [i \in DOMAIN dotted |->
                                           IF dotted[i].k = "str"
                                           THEN ParseNum(dotted[i].s) ELSE NaN]))
            [] data_type = DATE_FORMAT ->
                 IF dtype = "datetime64" THEN Ok(df)
                 ELSE IF \E i \in DOMAIN cells :
                           \/ cells[i].k \in {"num", "bool"}
                           \/ cells[i].k = "str" /\ ~IsDate(cells[i].s)
                      THEN Raise(df, "ValueError")
                      ELSE Ok(SetCol(df, col_name, "datetime64",
                                     [i \in DOMAIN cells |->
                                        IF cells[i].k = "str"
                                        THEN ParseDate(cells[i].s) ELSE NaT]))
            [] data_type = STR_FORMAT ->
                 Ok(SetCol(df, col_name, "object",
                           [i \in DOMAIN cells |-> AsStr(cells[i], dtype)]))
            [] data_type = BOOL_FORMAT ->
                 IF ~HasStrAccessor(df, col_name) THEN Raise(df, "AttributeError")
                 ELSE LET stripped == SeriesStrReplace(cells, <<"n", "o">>, <<>>)
                      IN Ok(SetCol(df, col_name, "bool",
                                   [i \in DOMAIN stripped |-> AsBool(stripped[i])]))

\* The loop of convert_all_cols from entry i of col_dict on: it ends at the
\* first exception, which leaves the columns already converted as they are.
RECURSIVE ConvertFrom(_, _)
ConvertFrom(df, i) ==
  IF i > Len(col_dict) THEN Ok(df)
  ELSE LET r == convert_col(df, col_dict[i][1], col_dict[i][2])
       IN IF r.exc # "none" THEN r ELSE ConvertFrom(r.df, i + 1)

convert_all_cols(df) == ConvertFrom(df, 1)

(***************************************************************************)
(* Queries.  A query returns a record with the frame it leaves in          *)
(* self.df_exp (df), what it returns (ret) and the exception.              *)
(***************************************************************************)
NoCell == [k |-> "none", n |-> 0, e |-> 0, s |-> <<>>]

\* Python's == of two cell values: NaN equals nothing, True equals 1.
CellEq(a, b) ==
  /\ a.k \notin {"nan", "nat", "none"}
  /\ \/ a.k = b.k /\ a = b
     \/ a.k \in {"num", "bool"} /\ b.k \in {"num", "bool"} /\ a.n = b.n /\ a.e = b.e

\* Python's < of two cell values of one kind.
CellLess(a, b) ==
  \/ a.k = "str" /\ b.k = "str" /\ StrLess(a.s, b.s)
  \/ a.k \in {"num", "bool"} /\ b.k \in {"num", "bool"} /\ NumLess(a, b)
  \/ a.k = "date" /\ b.k = "date" /\ a.n < b.n

\* get_filtered_df without its first selection: third-party expenses stay.
get_filtered_df_any_owner(df, filter_col, filter_val, my_own_exp) ==
  IF MY_EXP_COL \notin df.cols \/ filter_col \notin df.cols
  THEN [df |-> df, ret |-> NoFrame, exc |-> "KeyError"]
  ELSE [df |-> df,
        ret |-> BoolIndex(df, [i \in 1..Len(df.rows) |->
                                 CellEq(df.rows[i].c[filter_col], filter_val)]),
        exc |-> "none"]

get_filtered_df(df, filter_col, filter_val, my_own_exp) ==
  IF MY_EXP_COL \notin df.cols
  THEN [df |-> df, ret |-> NoFrame, exc |-> "KeyError"]
  ELSE LET df_my_exp ==
             BoolIndex(df, [i \in 1..Len(df.rows) |->
                              CellEq(df.rows[i].c[MY_EXP_COL], BoolCell(my_own_exp))])
       IN IF filter_col \notin df_my_exp.cols
          THEN [df |-> df, ret |-> NoFrame, exc |-> "KeyError"]
          ELSE LET df_filtered ==
                     BoolIndex(df_my_exp,
                               [i \in 1..Len(df_my_exp.rows) |->
                                  CellEq(df_my_exp.rows[i].c[filter_col], filter_val)])
               IN [df |-> df, ret |-> df_filtered, exc |-> "none"]

\* Series.sum(): missing values are skipped; texts are concatenated.
RECURSIVE SeriesSum(_)
SeriesSum(cells) ==
  IF cells = <<>> THEN NumCell(0, 0)
  ELSE LET rest == SeriesSum(Tail(cells))
           c == Head(cells)
       IN CASE c.k \in {"num", "bool"} -> NumAdd(c, rest)
            [] c.k = "str" ->
                 StrCell(c.s \o (IF rest.k = "str" THEN rest.s ELSE <<>>))
            [] OTHER -> rest

get_sum(df, df_filtered) ==
  IF VAL_COL \notin df_filtered.cols
  THEN [df |-> df, ret |-> NoCell, exc |-> "KeyError"]
  ELSE LET sum_col_val == SeriesSum(ColCells(df_filtered, VAL_COL))
       IN IF sum_col_val.k = "str"
          THEN [df |-> df, ret |-> NoCell, exc |-> "TypeError"]
          ELSE [df |-> df, ret |-> round2(sum_col_val), exc |-> "none"]

get_sum_by_date(df, df_base, filter_date) ==
  LET dt_time == Timestamp(filter_date)
  IN IF DT_COL \notin df_base.cols
     THEN [df |-> df, ret |-> NoCell, exc |-> "KeyError"]
     ELSE IF \/ df_base.dtype[DT_COL] \in {"int64", "float64", "bool"}
             \/ \E i \in 1..Len(df_base.rows) :
                  df_base.rows[i].c[DT_COL].k \notin {"date", "nat"}
          THEN [df |-> df, ret |-> NoCell, exc |-> "TypeError"]
          ELSE LET df_filter_dt ==
                     BoolIndex(df_base,
                               [i \in 1..Len(df_base.rows) |->
                                  /\ df_base.rows[i].c[DT_COL].k = "date"
                                  /\ ~CellLess(df_base.rows[i].c[DT_COL], dt_time)])
               IN get_sum(df, df_filter_dt)

(***************************************************************************)
(* summary.                                                                *)
(***************************************************************************)
TOP_N == 3

HeadN(s) == SubSeq(s, 1, IF Len(s) < TOP_N THEN Len(s) ELSE TOP_N)

\* The orders sort_values(ascending=False) may give to the positions S of a
\* sequence of keys.  Its default kind, "quicksort", is not a stable sort:
\* positions with equal keys come in any order.
RECURSIVE Descending(_, _)
Descending(S, key) ==
  IF S = {} THEN {<<>>}
  ELSE UNION { {<<i>> \o t : t \in Descending(S \ {i}, key)} :
               i \in {j \in S : \A h \in S : ~CellLess(key[j], key[h])} }

\* The positions S in increasing order.
RECURSIVE Ascending(_)
Ascending(S) ==
  IF S = {} THEN <<>>
  ELSE LET i == CHOOSE j \in S : \A h \in S : j <= h
       IN <<i>> \o Ascending(S \ {i})

IsMissing(cell) == cell.k \in {"nan", "nat", "none"}

\* rows.sort_values(col, ascending=False): the rows without a value last, in
\* their order.
sort_values(rows, col) ==
  LET key == [i \in 1..Len(rows) |-> rows[i].c[col]]
      valued == {i \in 1..Len(rows) : ~IsMissing(key[i])}
      last == Ascending((1..Len(rows)) \ valued)
  IN { [i \in 1..Len(rows) |-> rows[(o \o last)[i]]] : o \in Descending(valued, key) }

\* df[cols]: the frame with these columns only.
Project(df, cols) ==
  [cols |-> cols,
   dtype |-> [c \in cols |-> df.dtype[c]],
   rows |-> [i \in 1..Len(df.rows) |->
               [idx |-> df.rows[i].idx, c |-> [c \in cols |-> df.rows[i].c[c]]]]]

\* The group keys of groupby(CATEG_COL) in its order: sorted ascending, rows
\* without a category dropped.
RECURSIVE SortedKeys(_)
SortedKeys(K) ==
  IF K = {} THEN <<>>
  ELSE LET m == CHOOSE a \in K : \A b \in K : ~CellLess(b, a)
       IN <<m>> \o SortedKeys(K \ {m})

\* df[grp_cols].groupby(CATEG_COL).sum(): one row for each category, labelled
\* by it, with the sum of its values.
groupby_sum(df) ==
  LET K == {df.rows[i].c[CATEG_COL] : i \in {j \in 1..Len(df.rows) :
                                              ~IsMissing(df.rows[j].c[CATEG_COL])}}
      keys == SortedKeys(K)
      members(k) == SelectSeq(df.rows, LAMBDA r : r.c[CATEG_COL] = k)
  IN [i \in 1..Len(keys) |->
        [idx |-> keys[i],
         c |-> [c \in {VAL_COL} |->
                  SeriesSum([j \in 1..Len(members(keys[i])) |->
                               members(keys[i])[j].c[VAL_COL]])]]]

Bars == [t |-> "bars", label |-> "", val |-> NoCell, rows |-> <<>>]
Line(label, val) == [t |-> "line", label |-> label, val |-> val, rows |-> <<>>]
Listing(label, rows) == [t |-> "frame", label |-> label, val |-> NoCell, rows |-> rows]

filter_credit_date == <<"2", "0", "2", "3", "-", "1", "0", "-", "0", "1">>
filter_cols == {DT_COL, PROD_COL, VAL_COL, CATEG_COL}

\* summary sorting the stored table itself (sort_values with inplace=True).
summary_inplace(df) ==
  IF VAL_COL \in df.cols
  THEN {[df |-> [df EXCEPT !.rows = rows], out |-> <<Bars>>, exc |-> "none"] :
          rows \in sort_values(df.rows, VAL_COL)}
  ELSE {[df |-> df, out |-> <<>>, exc |-> "KeyError"]}

\* What one call of summary may do: the frame it leaves in self.df_exp, what
\* it has printed and the exception that ended it.
summary(df) ==
  LET debit == get_filtered_df(df, PAY_COL, StrCell(<<"d", "e", "b", "i", "t">>), TRUE)
      df_debit == debit.ret
      sum_debit == get_sum(df, df_debit)
      credit == get_filtered_df(df, PAY_COL, StrCell(<<"c", "r", "e", "d", "i", "t">>), TRUE)
      df_credit == credit.ret
      sum_credit == get_sum_by_date(df, df_credit, filter_credit_date)
      printed == <<Bars, Line("Sum of all debit expenses", sum_debit.ret),
                   Line("Most expensive items paid in debit", NoCell)>>
      Rest(items_d, cats_d, items_c, cats_c) ==
        <<Listing("debit items", HeadN(items_d)),
          Line("Most expensive categories paid in debit", NoCell),
          Listing("debit categories", HeadN(cats_d)),
          Bars, Bars,
          Line("Sum of all credit expenses", sum_credit.ret),
          Line("Most expensive items paid in credit", NoCell),
          Listing("credit items", HeadN(items_c)),
          Line("Most expensive categories paid in credit", NoCell),
          Listing("credit categories", HeadN(cats_c)),
          Bars>>
  IN IF debit.exc # "none" THEN {[df |-> df, out |-> <<>>, exc |-> debit.exc]}
     ELSE IF sum_debit.exc # "none" THEN {[df |-> df, out |-> <<>>, exc |-> sum_debit.exc]}
     ELSE IF credit.exc # "none" THEN {[df |-> df, out |-> <<>>, exc |-> credit.exc]}
     ELSE IF sum_credit.exc # "none" THEN {[df |-> df, out |-> <<>>, exc |-> sum_credit.exc]}
     ELSE IF ~(filter_cols \subseteq df_debit.cols)
          THEN {[df |-> df, out |-> printed, exc |-> "KeyError"]}
     ELSE { [df |-> df, out |-> printed \o Rest(items_d, cats_d, items_c, cats_c),
             exc |-> "none"] :
            items_d \in sort_values(Project(df_debit, filter_cols).rows, VAL_COL),
            cats_d \in sort_values(groupby_sum(df_debit), VAL_COL),
            items_c \in sort_values(Project(df_credit, filter_cols).rows, VAL_COL),
            cats_c \in sort_values(groupby_sum(df_credit), VAL_COL) }

(***************************************************************************)
(* The input files.                                                        *)
(***************************************************************************)
MaxRows == 3
MaxRowsTop == 4
MaxRowsLoad == 2

T_debit == <<"d", "e", "b", "i", "t">>
T_credit == <<"c", "r", "e", "d", "i", "t">>
T_yes == <<"y", "e", "s">>
T_no == <<"n", "o">>
T_nobody == <<"n", "o", "b", "o", "d", "y">>
T_before == <<"0", "9", "/", "3", "0", "/", "2", "0", "2", "3">>
T_threshold == <<"1", "0", "/", "0", "1", "/", "2", "0", "2", "3">>
T_baddate == <<"1", "3", "/", "4", "0", "/", "2", "0", "2", "3">>
T_1c50 == <<"1", ",", "5", "0">>
T_1d50 == <<"1", ".", "5", "0">>
T_2c00 == <<"2", ",", "0", "0">>
T_x == <<"x">>

\* A line of the file: the texts of its cells.  The product names the line.
Line_(i, date, value, category, pay, own) ==
  [c \in Columns |->
     CASE c = DT_COL -> date
       [] c = PROD_COL -> <<"p">> \o NatToStr(i)
       [] c = VAL_COL -> value
       [] c = CATEG_COL -> category
       [] c = PAY_COL -> pay
       [] c = PRIOR_COL -> T_no
       [] c = MY_EXP_COL -> own
       [] c = FIX_EXP_COL -> T_yes
       [] c = DETAILS_COL -> <<>>]

\* Valid lines, for the queries: own and third-party expenses, debit and
\* credit, before and on the threshold date, equal and different values.
RowPalette ==
  { <<T_before, T_1c50, <<"B">>, T_debit, T_yes>>,
    <<T_threshold, T_1c50, <<"A">>, T_debit, T_yes>>,
    <<T_threshold, T_2c00, <<"A">>, T_debit, T_yes>>,
    <<T_threshold, T_2c00, <<"B">>, T_debit, T_no>>,
    <<T_before, T_2c00, <<"A">>, T_credit, T_yes>>,
    <<T_threshold, T_1c50, <<"B">>, T_credit, T_yes>> }

\* Lines for the conversions: both decimal separators and a text that is no
\* number, a date that does not exist, an empty and a surprising boolean.
LoadPalette ==
  { <<T_threshold, v, <<"A">>, T_debit, o>> :
      v \in {T_1c50, T_1d50, T_x}, o \in {T_yes, <<>>, T_nobody} }
  \cup { <<T_baddate, T_1c50, <<"A">>, T_debit, T_yes>> }

\* Own debit lines, for longer files: more lines than the summary lists.
TopPalette ==
  { <<T_before, T_1c50, <<"B">>, T_debit, T_yes>>,
    <<T_threshold, T_1c50, <<"A">>, T_debit, T_yes>>,
    <<T_threshold, T_2c00, <<"A">>, T_debit, T_yes>> }

RECURSIVE SeqsUpTo(_, _)
SeqsUpTo(S, n) ==
  IF n = 0 THEN {<<>>}
  ELSE LET shorter == SeqsUpTo(S, n - 1)
       IN shorter \cup {Append(q, x) : q \in {r \in shorter : Len(r) = n - 1}, x \in S}

File(header, picks) ==
  [exists |-> TRUE,
   header |-> header,
   rows |-> [i \in 1..Len(picks) |->
               [c \in header |->
                  Line_(i, picks[i][1], picks[i][2], picks[i][3], picks[i][4],
                        picks[i][5])[c]]]]

Unreadable == [exists |-> FALSE, header |-> {}, rows |-> <<>>]

Files ==
  {File(Columns, picks) : picks \in SeqsUpTo(RowPalette, MaxRows)}
  \cup {File(Columns, picks) : picks \in SeqsUpTo(TopPalette, MaxRowsTop)}
  \cup {File(Columns, picks) : picks \in SeqsUpTo(LoadPalette, MaxRowsLoad)}
  \cup {File(Columns \ {c}, picks) :
          c \in Columns,
          picks \in SeqsUpTo({<<T_threshold, T_1c50, <<"A">>, T_debit, T_yes>>},
                             MaxRowsLoad)}
  \cup {Unreadable}

(***************************************************************************)
(* The program: the module is imported, one ExpenseManager is constructed  *)
(* from the file, and its methods are called in any order.  view, total    *)
(* and out hold what the latest call returned or printed; the caller keeps *)
(* the frame of its latest get_filtered_df to pass it to get_sum and       *)
(* get_sum_by_date.                                                        *)
(***************************************************************************)
Called(name) == [name |-> name, col |-> "", val |-> NoCell, own |-> FALSE]

Init ==
  /\ csv \in Files
  /\ obj = "unimported"
  /\ df_exp = NoFrame
  /\ view = NoFrame
  /\ total = NoCell
  /\ out = <<>>
  /\ exc = "none"
  /\ op = Called("")

\* The class body evaluates the annotation pandas.DataFrame of get_sum, and
\* the module binds the name pd only: an interpreter that evaluates
\* annotations when a function is defined raises NameError, one that defers
\* them defines the class.
import_module ==
  /\ obj = "unimported"
  /\ \/ obj' = "class" /\ exc' = "none"
     \/ obj' = "import_failed" /\ exc' = "NameError"
  /\ op' = Called("import")
  /\ UNCHANGED <<csv, df_exp, view, total, out>>

__init__ ==
  /\ obj = "class"
  /\ op' = Called("__init__")
  /\ IF csv.exists
     THEN obj' = "constructed" /\ df_exp' = read_csv(csv) /\ exc' = "none"
     ELSE obj' = obj /\ df_exp' = df_exp /\ exc' = "FileNotFoundError"
  /\ UNCHANGED <<csv, view, total, out>>

Call_convert_all_cols ==
  /\ obj = "constructed"
  /\ LET r == convert_all_cols(df_exp)
     IN df_exp' = r.df /\ exc' = r.exc
  /\ op' = Called("convert_all_cols")
  /\ view' = NoFrame /\ total' = NoCell /\ out' = <<>>
  /\ UNCHANGED <<csv, obj>>

FilterArgs ==
  { <<PAY_COL, StrCell(T_debit)>>, <<PAY_COL, StrCell(T_credit)>>,
    <<CATEG_COL, StrCell(<<"A">>)>> }

Call_get_filtered_df(filter_col, filter_val, my_own_exp) ==
  /\ obj = "constructed"
  /\ LET r == get_filtered_df(df_exp, filter_col, filter_val, my_own_exp)
     IN df_exp' = r.df /\ view' = r.ret /\ exc' = r.exc
  /\ op' = [name |-> "get_filtered_df", col |-> filter_col, val |-> filter_val,
            own |-> my_own_exp]
  /\ total' = NoCell /\ out' = <<>>
  /\ UNCHANGED <<csv, obj>>

Call_get_sum ==
  /\ obj = "constructed"
  /\ op.name = "get_filtered_df" /\ exc = "none"
  /\ LET r == get_sum(df_exp, view)
     IN df_exp' = r.df /\ total' = r.ret /\ exc' = r.exc
  /\ op' = Called("get_sum")
  /\ view' = NoFrame /\ out' = <<>>
  /\ UNCHANGED <<csv, obj>>

Call_get_sum_by_date ==
  /\ obj = "constructed"
  /\ op.name = "get_filtered_df" /\ exc = "none"
  /\ LET r == get_sum_by_date(df_exp, view, filter_credit_date)
     IN df_exp' = r.df /\ total' = r.ret /\ exc' = r.exc
  /\ op' = Called("get_sum_by_date")
  /\ view' = NoFrame /\ out' = <<>>
  /\ UNCHANGED <<csv, obj>>

Call_summary ==
  /\ obj = "constructed"
  /\ \E r \in summary(df_exp) :
       df_exp' = r.df /\ out' = r.out /\ exc' = r.exc
  /\ op' = Called("summary")
  /\ view' = NoFrame /\ total' = NoCell
  /\ UNCHANGED <<csv, obj>>

Next ==
  \/ import_module
  \/ __init__
  \/ Call_convert_all_cols
  \/ \E a \in FilterArgs, my_own_exp \in BOOLEAN :
       Call_get_filtered_df(a[1], a[2], my_own_exp)
  \/ Call_get_sum
  \/ Call_get_sum_by_date
  \/ Call_summary

Spec == Init /\ [][Next]_vars

(***************************************************************************)
(* Properties.                                                             *)
(***************************************************************************)
QueryOps == {"get_filtered_df", "get_sum", "get_sum_by_date", "summary"}

SummaryDone == op.name = "summary" /\ exc = "none"

\* The listings and the credit total of a summary that ran to its end.
DebitItems == out[4].rows
DebitCategories == out[6].rows
CreditTotal == out[9].val
CreditItems == out[11].rows
CreditCategories == out[13].rows

Min(a, b) == IF a < b THEN a ELSE b

RECURSIVE SetSum(_, _)
SetSum(S, f) ==
  IF S = {} THEN NumCell(0, 0)
  ELSE LET i == CHOOSE j \in S : TRUE
       IN NumAdd(f[i], SetSum(S \ {i}, f))

Cell(i, col) == df_exp.rows[i].c[col]

\* The lines of the table that are own expenses paid by pay.
Own(pay) ==
  {i \in 1..Len(df_exp.rows) :
     Cell(i, MY_EXP_COL) = BoolCell(TRUE) /\ Cell(i, PAY_COL) = StrCell(pay)}

OnOrAfterThreshold(i) ==
  Cell(i, DT_COL).k = "date" /\ Cell(i, DT_COL).n >= DateCell(2023, 10, 1).n

ValueOf(i) == Cell(i, VAL_COL)
Values == [i \in 1..Len(df_exp.rows) |-> ValueOf(i)]

\* The declared type of a column, and whether the column holds it.
DeclaredType(col) ==
  col_dict[CHOOSE i \in 1..Len(col_dict) : col_dict[i][1] = col][2]

ColCoerced(df, col) ==
  LET kinds == {df.rows[i].c[col].k : i \in 1..Len(df.rows)}
  IN CASE DeclaredType(col) = DATE_FORMAT ->
            df.dtype[col] = "datetime64" /\ kinds \subseteq {"date", "nat"}
       [] DeclaredType(col) = NUM_FORMAT ->
            df.dtype[col] \in {"int64", "float64"} /\ kinds \subseteq {"num", "nan"}
       [] DeclaredType(col) = BOOL_FORMAT ->
            df.dtype[col] = "bool" /\ kinds \subseteq {"bool"}
       [] DeclaredType(col) = STR_FORMAT ->
            df.dtype[col] = "object" /\ kinds \subseteq {"str"}

FullyCoerced(df) == Columns \subseteq df.cols /\ \A col \in Columns : ColCoerced(df, col)

\* C1: in the summary the credit total, the top-3 credit items and the top-3
\* credit categories are all computed over the own credit records dated on
\* or after 2023-10-01: a credit record dated before it is in none of them.
C1_CreditSameSubset ==
  SummaryDone =>
    LET since == {i \in Own(T_credit) : OnOrAfterThreshold(i)}
    IN /\ CreditTotal = SetSum(since, Values)
       /\ Len(CreditItems) = Min(TOP_N, Cardinality(since))
       /\ \A j \in 1..Len(CreditItems) :
            \E i \in since : CreditItems[j].idx = df_exp.rows[i].idx
       /\ \A j \in 1..Len(CreditCategories) :
            CreditCategories[j].c[VAL_COL] =
              SetSum({i \in since : Cell(i, CATEG_COL) = CreditCategories[j].idx},
                     Values)

\* C2: in every state after the table has been constructed from a file path
\* all nine columns hold their declared types.
C2_CoercedAtLoad == obj = "constructed" => FullyCoerced(df_exp)

\* C3: get_filtered_df returns exactly the records whose my_expense equals
\* the flag and whose named column equals the value, in source order; an
\* empty result is returned normally; with the flag true no record whose
\* my_expense is false is returned.
C3_FilteredExact ==
  op.name = "get_filtered_df" =>
    LET match == {i \in 1..Len(df_exp.rows) :
                    /\ CellEq(Cell(i, MY_EXP_COL), BoolCell(op.own))
                    /\ CellEq(Cell(i, op.col), op.val)}
    IN /\ exc = (IF {MY_EXP_COL, op.col} \subseteq df_exp.cols THEN "none" ELSE "KeyError")
       /\ exc = "none" =>
            /\ Len(view.rows) = Cardinality(match)
            /\ \A j \in 1..Len(view.rows) : \E i \in match : view.rows[j] = df_exp.rows[i]
            /\ \A j, h \in 1..Len(view.rows) :
                 j < h => view.rows[j].idx < view.rows[h].idx
            /\ op.own => \A j \in 1..Len(view.rows) :
                           view.rows[j].c[MY_EXP_COL] # BoolCell(FALSE)

\* A filter of a converted table that kept two own records in their order and
\* left out a third-party record with the value asked for.
C3_Witness ==
  /\ op.name = "get_filtered_df" /\ op.own /\ exc = "none"
  /\ FullyCoerced(df_exp)
  /\ Len(view.rows) >= 2
  /\ \E i \in 1..Len(df_exp.rows) :
       Cell(i, MY_EXP_COL) = BoolCell(FALSE) /\ CellEq(Cell(i, op.col), op.val)

\* The value texts of the file are valid numbers with '.' or ',' as the
\* decimal separator, and its other columns convert.
Dotted(text) == str_replace(text, <<",">>, <<".">>)

ValidValues ==
  /\ csv.exists /\ csv.header = Columns
  /\ \A i \in 1..Len(csv.rows) :
       csv.rows[i][VAL_COL] \notin NA_VALUES /\ IsNumeric(Dotted(csv.rows[i][VAL_COL]))
  /\ \A i \in 1..Len(col_dict) :
       col_dict[i][1] # VAL_COL =>
         convert_col(read_csv(csv), col_dict[i][1], col_dict[i][2]).exc = "none"

\* C4: for every file whose value column holds valid numeric strings the
\* numeric coercion succeeds and yields the number written, whichever of '.'
\* and ',' a cell uses, for every mix of separators in the column.
C4_DecimalSeparators ==
  [][(op'.name = "convert_all_cols" /\ df_exp = read_csv(csv) /\ ValidValues) =>
       /\ exc' = "none"
       /\ \A i \in 1..Len(csv.rows) :
            df_exp'.rows[i].c[VAL_COL] = ParseNum(Dotted(csv.rows[i][VAL_COL]))]_vars

\* C5: the boolean coercion of a cell removes every "no" and yields true iff
\* the rest is not empty: "no" and the empty cell give false, "yes" and
\* "nobody" give true.
C5_BooleanRule ==
  \A col \in {PRIOR_COL, MY_EXP_COL, FIX_EXP_COL} :
    (obj = "constructed" /\ col \in df_exp.cols /\ df_exp.dtype[col] = "bool") =>
      \A i \in 1..Len(csv.rows) :
        LET text == csv.rows[i][col]
        IN /\ Cell(i, col) = BoolCell(str_replace(text, T_no, <<>>) # <<>>)
           /\ text \in {T_no, <<>>} => Cell(i, col) = BoolCell(FALSE)
           /\ text \in {T_yes, T_nobody} => Cell(i, col) = BoolCell(TRUE)

\* The listing L is the first TOP_N groups of the records R by category, in
\* descending order of their sums, equal sums in the order in which the
\* categories first appear in the records.
GroupedTopN(L, R) ==
  LET cats == {Cell(i, CATEG_COL) : i \in R}
      sum(k) == SetSum({i \in R : Cell(i, CATEG_COL) = k}, Values)
      first(k) == CHOOSE i \in R :
                    Cell(i, CATEG_COL) = k /\ \A j \in R : Cell(j, CATEG_COL) = k => i <= j
      Before(k, h) == NumLess(sum(h), sum(k)) \/ (sum(k) = sum(h) /\ first(k) < first(h))
      listed == {L[j].idx : j \in 1..Len(L)}
  IN /\ Len(L) = Min(TOP_N, Cardinality(cats))
     /\ listed \subseteq cats
     /\ \A j \in 1..Len(L) : L[j].c[VAL_COL] = sum(L[j].idx)
     /\ \A j, h \in 1..Len(L) : j < h => Before(L[j].idx, L[h].idx)
     /\ \A k \in listed, h \in cats \ listed : Before(k, h)

\* C6: the category listings of the summary are the grouped aggregation of
\* the records given to it: groups by category, summed, in descending order
\* of the sums with ties in order of first appearance, the first 3.
C6_GroupedOrder ==
  SummaryDone =>
    /\ GroupedTopN(DebitCategories, Own(T_debit))
    /\ GroupedTopN(CreditCategories, Own(T_credit))

\* The listing L is the first TOP_N of the records R in descending order of
\* value, records of equal value in their source order.
StableTopN(L, R) ==
  LET Before(i, j) ==
        NumLess(ValueOf(j), ValueOf(i)) \/ (ValueOf(i) = ValueOf(j) /\ i < j)
      pos(j) == CHOOSE i \in R : df_exp.rows[i].idx = L[j].idx
      listed == {pos(j) : j \in 1..Len(L)}
  IN /\ Len(L) = Min(TOP_N, Cardinality(R))
     /\ \A j \in 1..Len(L) : \E i \in R : df_exp.rows[i].idx = L[j].idx
     /\ \A j, h \in 1..Len(L) : j < h => Before(pos(j), pos(h))
     /\ \A i \in listed, j \in R \ listed : Before(i, j)

\* C7: the item listings of the summary are the first 3 records in
\* descending order of value, and the sort is stable: of two records with
\* the same value the one first in the source comes first, also at the cut
\* between the 3rd and the 4th record.
C7_StableTopN ==
  SummaryDone =>
    /\ StableTopN(DebitItems, Own(T_debit))
    /\ StableTopN(CreditItems, Own(T_credit))

\* Some cell of the date or of the value column of the file cannot be
\* converted.
BadCell ==
  /\ csv.exists
  /\ \E i \in 1..Len(csv.rows) :
       \/ /\ DT_COL \in csv.header
          /\ csv.rows[i][DT_COL] \notin NA_VALUES /\ ~IsDate(csv.rows[i][DT_COL])
       \/ /\ VAL_COL \in csv.header
          /\ csv.rows[i][VAL_COL] \notin NA_VALUES
          /\ ~IsNumeric(Dotted(csv.rows[i][VAL_COL]))

\* Some column converted by convert_col (a date or a boolean one) beside a
\* column that does not hold its declared type.
PartlyCoerced(df) ==
  /\ \E col \in df.cols \ {VAL_COL} :
       DeclaredType(col) \in {DATE_FORMAT, BOOL_FORMAT} /\ ColCoerced(df, col)
  /\ \E col \in df.cols : ~ColCoerced(df, col)

\* C8: when a cell of the value or date column cannot be converted, no query
\* ever runs on a table of which some columns are coerced and others hold
\* raw text.
C8_NoPartialTable ==
  BadCell => ~(op.name \in QueryOps /\ exc = "none" /\ PartlyCoerced(df_exp))

\* C9: a file that lacks one of the nine columns fails to load, before any
\* output: nothing is ever printed for such a file.
C9_NoOutputWithoutColumn ==
  (csv.exists /\ csv.header # Columns) => out = <<>>

\* C10: filtering, summation, date-bounded summation and summary rendering
\* each leave the stored table unchanged.
C10_ReadOnly == [][op'.name \in QueryOps => df_exp' = df_exp]_vars

\* A summary of a converted table whose listing of debit items is in another
\* order than the table.
C10_Witness ==
  /\ SummaryDone /\ FullyCoerced(df_exp)
  /\ Len(DebitItems) >= 2
  /\ \E j, h \in 1..Len(DebitItems) : j < h /\ DebitItems[j].idx > DebitItems[h].idx

====
